---- MODULE Spec2Model ----
(***************************************************************************)
(* PythonExampleSkill (examples/wasm-skills/python-skill/src/main.py): one  *)
(* skill instance, its configuration resolved in the constructor, and the   *)
(* five tools greet, echo, calculate, process_list and status, each         *)
(* invoked to completion by the host before the next invocation begins.     *)
(*                                                                          *)
(* Python str values are sequences of one-character strings, so that        *)
(* formatting, upper(), slicing and substring tests are computed.  Python   *)
(* and JSON values are tagged records: numbers [t, num, den] (an int has    *)
(* den = 1; a float stands for the double nearest to num/den), booleans,    *)
(* strings, null, lists and dicts.  An optional value is the empty tuple    *)
(* (None) or a one-element tuple.                                           *)
(***************************************************************************)
EXTENDS Integers, Sequences, FiniteSets, TLC

VARIABLES host_config, greeting_prefix, max_items, pc, call, ret, hist

vars == <<host_config, greeting_prefix, max_items, pc, call, ret, hist>>

(* ------------------------------ bounds --------------------------------- *)

\* Longest message handed to echo.
MaxMsgLen == 2

\* Longest array (and longest damaged text's array) handed to process_list.
MaxArrayLen == 3

\* Scaled stand-in for the largest finite double (sys.float_info.max): an
\* int above it cannot be converted to float.
FloatMax == 50

(* --------------------------- optional values --------------------------- *)

None == <<>>

Some(v) == <<v>>

(* ------------------------------- numbers ------------------------------- *)

Abs(n) == IF n < 0 THEN -n ELSE n

RECURSIVE Gcd(_, _)
Gcd(m, n) == IF n = 0 THEN m ELSE Gcd(n, m % n)

PyInt(n) == [t |-> "int", num |-> n, den |-> 1]

\* The float nearest to n/d (d # 0), kept as the reduced fraction.
PyFloat(n, d) ==
  LET g == Gcd(Abs(n), Abs(d))
      s == IF d < 0 THEN -1 ELSE 1
  IN [t |-> "float", num |-> (s * n) \div g, den |-> (s * d) \div g]

PyBool(b) == [t |-> "bool", b |-> b]

PyStr(s) == [t |-> "str", s |-> s]

PyNull == [t |-> "null"]

PyList(items) == [t |-> "list", items |-> items]

PyDict == [t |-> "dict"]

\* An int beyond the range of float, such as 10**400.
Huge == FloatMax + 1

\* Python's == on two numbers of any numeric type.
NumEq(x, y) == x.num * y.den = y.num * x.den

NumLess(x, y) == x.num * y.den < y.num * x.den

(* ------------------------------- strings ------------------------------- *)

LowerLetters == <<"a", "b", "c", "d", "e", "f", "g", "h", "i", "j", "k", "l", "m", "n", "o", "p", "q", "r", "s", "t", "u", "v", "w", "x", "y", "z">>

UpperLetters == <<"A", "B", "C", "D", "E", "F", "G", "H", "I", "J", "K", "L", "M", "N", "O", "P", "Q", "R", "S", "T", "U", "V", "W", "X", "Y", "Z">>

DigitChars == <<"0", "1", "2", "3", "4", "5", "6", "7", "8", "9">>

\* U+FB01, the ligature fi: one character whose upper case is two, "FI".
Ligature == "U+FB01"

IndexIn(c, table) == CHOOSE i \in 1..Len(table) : table[i] = c

InTable(c, table) == \E i \in 1..Len(table) : table[i] = c

\* str.upper() on one character.
UpperChar(c) ==
  IF InTable(c, LowerLetters) THEN <<UpperLetters[IndexIn(c, LowerLetters)]>>
  ELSE IF c = Ligature THEN <<"F", "I">>
  ELSE <<c>>

\* str.lower() on one character.
LowerChar(c) ==
  IF InTable(c, UpperLetters) THEN <<LowerLetters[IndexIn(c, UpperLetters)]>>
  ELSE <<c>>

RECURSIVE Upper(_)
Upper(s) == IF s = <<>> THEN <<>> ELSE UpperChar(Head(s)) \o Upper(Tail(s))

RECURSIVE Lower(_)
Lower(s) == IF s = <<>> THEN <<>> ELSE LowerChar(Head(s)) \o Lower(Tail(s))

\* s[::-1]
Reverse(s) == [i \in 1..Len(s) |-> s[Len(s) + 1 - i]]

\* sub in s
Contains(s, sub) ==
  \E i \in 0..(Len(s) - Len(sub)) : SubSeq(s, i + 1, i + Len(sub)) = sub

RECURSIVE NatDigits(_)
NatDigits(n) ==
  IF n < 10 THEN <<DigitChars[n + 1]>>
  ELSE NatDigits(n \div 10) \o <<DigitChars[(n % 10) + 1]>>

\* str(n) of an int, as an f-string renders it.
FormatInt(n) == IF n < 0 THEN <<"-">> \o NatDigits(-n) ELSE NatDigits(n)

\* repr of a float: digits and ".0" when it is integral; the shortest
\* round-trip digits of any other double are left as the fraction.
FormatFloat(x) ==
  IF x.den = 1 THEN FormatInt(x.num) \o <<".", "0">>
  ELSE <<"(">> \o FormatInt(x.num) \o <<"/">> \o FormatInt(x.den) \o <<")">>

FormatNum(x) == IF x.t = "int" THEN FormatInt(x.num) ELSE FormatFloat(x)

RECURSIVE IntOfDigits(_)
IntOfDigits(s) ==
  IF s = <<>> THEN 0
  ELSE 10 * IntOfDigits(SubSeq(s, 1, Len(s) - 1)) + (IndexIn(s[Len(s)], DigitChars) - 1)

\* int(v) of an int or of a str of decimal digits.
IntOf(v) == IF v.t = "int" THEN v.num ELSE IntOfDigits(v.s)

\* sep.join(parts)
RECURSIVE Join(_, _)
Join(sep, parts) ==
  IF parts = <<>> THEN <<>>
  ELSE IF Len(parts) = 1 THEN parts[1]
  ELSE parts[1] \o sep \o Join(sep, Tail(parts))

(* --------------------------- ExecutionResult --------------------------- *)

\* ExecutionResult.ok(message, data=None)
ok(message, data) ==
  [success |-> TRUE, message |-> message, data |-> data, error_message |-> None]

\* ExecutionResult.error(error_message)
error(error_message) ==
  [success |-> FALSE, message |-> <<>>, data |-> None,
   error_message |-> Some(error_message)]

\* What an invocation hands back: a str, an ExecutionResult, a dict, or an
\* exception that leaves the tool.
ReturnedStr(s) == [kind |-> "str", value |-> s]

ReturnedResult(r) == [kind |-> "result", value |-> r]

ReturnedDict(d) == [kind |-> "dict", value |-> d]

Raised(exc) == [kind |-> "raised", exc |-> exc]

(* ---------------------------- configuration ---------------------------- *)

DefaultGreetingPrefix == <<"H", "e", "l", "l", "o">>

DefaultMaxItems == 100

\* The values a host may supply for the two options (None: not supplied).
HostConfigs ==
  [greeting_prefix : {None, Some(PyStr(<<"H", "i">>))},
   max_items : {None, Some(PyStr(<<"0">>)), Some(PyStr(<<"2">>)), Some(PyInt(3))}]

\* self.get_config(key, default): the host's value if supplied, else default.
get_config(hc, key, default) == IF hc[key] # None THEN hc[key][1] ELSE default

\* PythonExampleSkill.__init__
init_greeting_prefix(hc) == get_config(hc, "greeting_prefix", PyStr(DefaultGreetingPrefix)).s

init_max_items(hc) == IntOf(get_config(hc, "max_items", PyInt(DefaultMaxItems)))

(* -------------------------------- greet -------------------------------- *)

DefaultName == <<"W", "o", "r", "l", "d">>

Names == {<<"W", "o", "r", "l", "d">>, <<"A", "l", "i", "c", "e">>, <<"C", "E", "O">>, <<>>}

\* greet with the default prefix written into the greeting.
greet_default_prefix(name, formal) ==
  IF formal THEN <<"G", "o", "o", "d", " ", "d", "a", "y", ",", " ">> \o name \o <<".", " ", "H", "o", "w", " ", "m", "a", "y", " ", "I", " ", "a", "s", "s", "i", "s", "t", " ", "y", "o", "u", "?">>
  ELSE DefaultGreetingPrefix \o <<",", " ">> \o name \o <<"!">>

\* PythonExampleSkill.greet(name, formal)
greet(name, formal) ==
  IF formal THEN <<"G", "o", "o", "d", " ", "d", "a", "y", ",", " ">> \o name \o <<".", " ", "H", "o", "w", " ", "m", "a", "y", " ", "I", " ", "a", "s", "s", "i", "s", "t", " ", "y", "o", "u", "?">>
  ELSE greeting_prefix \o <<",", " ">> \o name \o <<"!">>

(* -------------------------------- echo --------------------------------- *)

MsgChars == {"a", "B", Ligature}

Messages == UNION {[1..n -> MsgChars] : n \in 0..MaxMsgLen}

\* echo reversing first and upper-casing second.
echo_reverse_first(message, uppercase, reverse) ==
  LET result1 == IF reverse THEN Reverse(message) ELSE message
      result2 == IF uppercase THEN Upper(result1) ELSE result1
  IN result2

\* PythonExampleSkill.echo(message, uppercase, reverse)
echo(message, uppercase, reverse) ==
  LET result1 == IF uppercase THEN Upper(message) ELSE message
      result2 == IF reverse THEN Reverse(result1) ELSE result1
  IN result2

(* ------------------------------- status -------------------------------- *)

\* status reporting the declared default of max_items.
status_reporting_defaults ==
  [skill_name |-> "python-example",
   version |-> "1.0.0",
   config |-> [greeting_prefix |-> greeting_prefix, max_items |-> DefaultMaxItems],
   tools_available |-> <<"greet", "echo", "calculate", "process_list", "status">>]

\* PythonExampleSkill.status()
status ==
  [skill_name |-> "python-example",
   version |-> "1.0.0",
   config |-> [greeting_prefix |-> greeting_prefix, max_items |-> max_items],
   tools_available |-> <<"greet", "echo", "calculate", "process_list", "status">>]

(* ------------------------------ calculate ------------------------------ *)

\* What a lambda of the operations table evaluates to: a value (a number or
\* None) or an exception.
Value(v) == [kind |-> "value", v |-> v]

\* Whether converting number x to float overflows (an int beyond the doubles).
TooBigForFloat(x) == x.t = "int" /\ Abs(x.num) > FloatMax

\* x + y, x - y, x * y, x / y of Python on ints and floats.  Two ints add,
\* subtract and multiply exactly; their true division is a float, and raises
\* when the quotient is beyond the doubles.  With a float operand the int
\* operand is converted to float first, which raises when it is too big.
Arith(fn, x, y) ==
  IF x.t = "int" /\ y.t = "int" THEN
    CASE fn = "add" -> Value(Some(PyInt(x.num + y.num)))
      [] fn = "subtract" -> Value(Some(PyInt(x.num - y.num)))
      [] fn = "multiply" -> Value(Some(PyInt(x.num * y.num)))
      [] fn = "divide" ->
           IF Abs(x.num) > FloatMax * Abs(y.num) THEN Raised("OverflowError")
           ELSE Value(Some(PyFloat(x.num, y.num)))
  ELSE IF TooBigForFloat(x) \/ TooBigForFloat(y) THEN Raised("OverflowError")
  ELSE
    CASE fn = "add" -> Value(Some(PyFloat(x.num * y.den + y.num * x.den, x.den * y.den)))
      [] fn = "subtract" -> Value(Some(PyFloat(x.num * y.den - y.num * x.den, x.den * y.den)))
      [] fn = "multiply" -> Value(Some(PyFloat(x.num * y.num, x.den * y.den)))
      [] fn = "divide" -> Value(Some(PyFloat(x.num * y.den, x.den * y.num)))

\* The lambdas with divide left unguarded: x / y raises on y == 0.
Lambda_unguarded(fn, x, y) ==
  IF fn = "divide" /\ y.num = 0 THEN Raised("ZeroDivisionError")
  ELSE Arith(fn, x, y)

\* The lambdas of the operations table: divide is guarded by y != 0.
Lambda(fn, x, y) ==
  IF fn = "divide" THEN (IF y.num # 0 THEN Arith(fn, x, y) ELSE Value(None))
  ELSE Arith(fn, x, y)

\* The operations dict with the divide entry left out.
operations_without_divide ==
  <<[key |-> <<"a", "d", "d">>, fn |-> "add"],
    [key |-> <<"s", "u", "b", "t", "r", "a", "c", "t">>, fn |-> "subtract"],
    [key |-> <<"m", "u", "l", "t", "i", "p", "l", "y">>, fn |-> "multiply"]>>

\* The operations dict, in insertion order.
operations ==
  <<[key |-> <<"a", "d", "d">>, fn |-> "add"],
    [key |-> <<"s", "u", "b", "t", "r", "a", "c", "t">>, fn |-> "subtract"],
    [key |-> <<"m", "u", "l", "t", "i", "p", "l", "y">>, fn |-> "multiply"],
    [key |-> <<"d", "i", "v", "i", "d", "e">>, fn |-> "divide"]>>

\* operations.keys()
Keys(d) == [i \in 1..Len(d) |-> d[i].key]

\* operation in operations
HasKey(d, k) == \E i \in 1..Len(d) : d[i].key = k

\* operations[operation]
Lookup(d, k) == d[CHOOSE i \in 1..Len(d) : d[i].key = k].fn

\* calculate assembling the division-by-zero failure field by field,
\* without an error message.
calculate_bare_failure(a, b, operation) ==
  IF ~HasKey(operations, operation) THEN
    ReturnedResult(error(<<"U", "n", "k", "n", "o", "w", "n", " ", "o", "p", "e", "r", "a", "t", "i", "o", "n", ":", " ">> \o operation \o <<".", " ", "V", "a", "l", "i", "d", ":", " ">>
                         \o Join(<<",", " ">>, Keys(operations))))
  ELSE
    LET result == Lambda(Lookup(operations, operation), a, b) IN
    IF result.kind = "raised" THEN result
    ELSE IF result.v = None THEN
      ReturnedResult([success |-> FALSE, message |-> <<"D", "i", "v", "i", "s", "i", "o", "n", " ", "b", "y", " ", "z", "e", "r", "o">>,
                      data |-> None, error_message |-> None])
    ELSE ReturnedResult(
           ok(FormatNum(a) \o <<" ">> \o operation \o <<" ">> \o FormatNum(b)
                \o <<" ", "=", " ">> \o FormatNum(result.v[1]),
              Some([result |-> result.v[1], operation |-> operation,
                    a |-> a, b |-> b])))

\* PythonExampleSkill.calculate(a, b, operation)
calculate(a, b, operation) ==
  IF ~HasKey(operations, operation) THEN
    ReturnedResult(error(<<"U", "n", "k", "n", "o", "w", "n", " ", "o", "p", "e", "r", "a", "t", "i", "o", "n", ":", " ">> \o operation \o <<".", " ", "V", "a", "l", "i", "d", ":", " ">>
                         \o Join(<<",", " ">>, Keys(operations))))
  ELSE
    LET result == Lambda(Lookup(operations, operation), a, b) IN
    IF result.kind = "raised" THEN result
    ELSE IF result.v = None THEN ReturnedResult(error(<<"D", "i", "v", "i", "s", "i", "o", "n", " ", "b", "y", " ", "z", "e", "r", "o">>))
    ELSE ReturnedResult(
           ok(FormatNum(a) \o <<" ">> \o operation \o <<" ">> \o FormatNum(b)
                \o <<" ", "=", " ">> \o FormatNum(result.v[1]),
              Some([result |-> result.v[1], operation |-> operation,
                    a |-> a, b |-> b])))

\* The operands and operation names handed to calculate.
CalcNumbers ==
  {PyInt(-4), PyInt(0), PyInt(1), PyInt(2), PyInt(Huge), PyFloat(1, 2), PyFloat(0, 1)}

KnownOperations == {<<"a", "d", "d">>, <<"s", "u", "b", "t", "r", "a", "c", "t">>, <<"m", "u", "l", "t", "i", "p", "l", "y">>, <<"d", "i", "v", "i", "d", "e">>}

OperationNames == KnownOperations \cup {<<"m", "o", "d", "u", "l", "o">>, <<>>, <<"A", "d", "d">>}

(* ----------------------------- json.loads ------------------------------ *)

\* A JSON text is the sequence of its lexical tokens.  The integer literal
\* with more digits than any double has, such as 1 followed by 400 zeros:
BigIntLiteral == "1e400-as-integer-digits"

ScalarTokens == {"-1", "2", "0.5", BigIntLiteral, "true", "\"a\"", "null"}

\* The value a scalar token denotes.
TokenValue(tok) ==
  CASE tok = "-1" -> PyInt(-1)
    [] tok = "2" -> PyInt(2)
    [] tok = "0.5" -> PyFloat(1, 2)
    [] tok = BigIntLiteral -> PyInt(Huge)
    [] tok = "true" -> PyBool(TRUE)
    [] tok = "\"a\"" -> PyStr(<<"a">>)
    [] tok = "null" -> PyNull

ParseOk(v, next) == [ok |-> TRUE, value |-> v, next |-> next, msg |-> <<>>]

\* json.JSONDecodeError(msg); the line and column are not kept.
ParseFail(msg) == [ok |-> FALSE, value |-> PyNull, next |-> 0, msg |-> msg]

RECURSIVE ParseValue(_, _)
RECURSIVE ParseElems(_, _, _)

\* The JSON value that starts at token i of s.
ParseValue(s, i) ==
  IF i > Len(s) THEN ParseFail(<<"E", "x", "p", "e", "c", "t", "i", "n", "g", " ", "v", "a", "l", "u", "e">>)
  ELSE IF s[i] \in ScalarTokens THEN ParseOk(TokenValue(s[i]), i + 1)
  ELSE IF s[i] = "{" THEN
    IF i + 1 <= Len(s) /\ s[i + 1] = "}" THEN ParseOk(PyDict, i + 2)
    ELSE ParseFail(<<"E", "x", "p", "e", "c", "t", "i", "n", "g", " ", "p", "r", "o", "p", "e", "r", "t", "y", " ", "n", "a", "m", "e", " ", "e", "n", "c", "l", "o", "s", "e", "d", " ", "i", "n", " ", "d", "o", "u", "b", "l", "e", " ", "q", "u", "o", "t", "e", "s">>)
  ELSE IF s[i] = "[" THEN
    IF i + 1 <= Len(s) /\ s[i + 1] = "]" THEN ParseOk(PyList(<<>>), i + 2)
    ELSE ParseElems(s, i + 1, <<>>)
  ELSE ParseFail(<<"E", "x", "p", "e", "c", "t", "i", "n", "g", " ", "v", "a", "l", "u", "e">>)

\* The rest of an array whose elements so far are acc, from token i.
ParseElems(s, i, acc) ==
  LET v == ParseValue(s, i) IN
  IF ~v.ok THEN v
  ELSE IF v.next <= Len(s) /\ s[v.next] = "]" THEN
    ParseOk(PyList(Append(acc, v.value)), v.next + 1)
  ELSE IF v.next <= Len(s) /\ s[v.next] = "," THEN
    ParseElems(s, v.next + 1, Append(acc, v.value))
  ELSE ParseFail(<<"E", "x", "p", "e", "c", "t", "i", "n", "g", " ", "'", ",", "'", " ", "d", "e", "l", "i", "m", "i", "t", "e", "r">>)

\* json.loads(s): the whole text must be one value.
loads(s) ==
  LET v == ParseValue(s, 1) IN
  IF v.ok /\ v.next # Len(s) + 1 THEN ParseFail(<<"E", "x", "t", "r", "a", " ", "d", "a", "t", "a">>) ELSE v

(* ---------------------------- process_list ----------------------------- *)

\* isinstance(x, (int, float)): bool is a subclass of int.
IsIntOrFloatInstance(x) == x.t \in {"int", "float", "bool"}

\* float(x) of an int, float or bool that is not too big.
Float(x) ==
  IF x.t = "bool" THEN PyFloat(IF x.b THEN 1 ELSE 0, 1)
  ELSE PyFloat(x.num, x.den)

\* sum(numbers) of floats.
RECURSIVE Sum(_)
Sum(numbers) ==
  IF numbers = <<>> THEN PyFloat(0, 1)
  ELSE LET rest == Sum(Tail(numbers))
           x == Head(numbers)
       IN PyFloat(x.num * rest.den + rest.num * x.den, x.den * rest.den)

\* min(numbers), max(numbers)
Min(numbers) ==
  numbers[CHOOSE i \in 1..Len(numbers) :
            \A j \in 1..Len(numbers) : ~NumLess(numbers[j], numbers[i])]

Max(numbers) ==
  numbers[CHOOSE i \in 1..Len(numbers) :
            \A j \in 1..Len(numbers) : ~NumLess(numbers[i], numbers[j])]

\* PythonExampleSkill.process_list(items)
process_list(items) ==
  LET parsed == loads(items) IN
  IF ~parsed.ok THEN ReturnedResult(error(<<"I", "n", "v", "a", "l", "i", "d", " ", "J", "S", "O", "N", ":", " ">> \o parsed.msg))
  ELSE
    LET data == parsed.value IN
    IF data.t # "list" THEN ReturnedResult(error(<<"I", "n", "p", "u", "t", " ", "m", "u", "s", "t", " ", "b", "e", " ", "a", " ", "J", "S", "O", "N", " ", "a", "r", "r", "a", "y">>))
    ELSE IF Len(data.items) > max_items THEN
      ReturnedResult(error(<<"T", "o", "o", " ", "m", "a", "n", "y", " ", "i", "t", "e", "m", "s", " ", "(">> \o FormatInt(Len(data.items))
                           \o <<")", ".", " ", "M", "a", "x", "i", "m", "u", "m", ":", " ">> \o FormatInt(max_items)))
    ELSE
      LET selected == SelectSeq(data.items, IsIntOrFloatInstance) IN
      IF \E i \in 1..Len(selected) : TooBigForFloat(selected[i]) THEN
        Raised("OverflowError")
      ELSE
        LET numbers == [i \in 1..Len(selected) |-> Float(selected[i])] IN
        IF numbers = <<>> THEN ReturnedResult(error(<<"N", "o", " ", "v", "a", "l", "i", "d", " ", "n", "u", "m", "b", "e", "r", "s", " ", "i", "n", " ", "i", "n", "p", "u", "t">>))
        ELSE
          LET stats == [count |-> Len(numbers),
                        sum |-> Sum(numbers),
                        min |-> Min(numbers),
                        max |-> Max(numbers),
                        average |-> PyFloat(Sum(numbers).num,
                                            Sum(numbers).den * Len(numbers))]
          IN ReturnedResult(ok(<<"P", "r", "o", "c", "e", "s", "s", "e", "d", " ">> \o FormatInt(Len(numbers)) \o <<" ", "i", "t", "e", "m", "s">>,
                               Some(stats)))

\* The texts handed to process_list: the serialisations of JSON values, and
\* damaged and non-JSON texts.
ElemValues ==
  {PyInt(-1), PyInt(2), PyFloat(1, 2), PyInt(Huge), PyBool(TRUE), PyStr(<<"a">>),
   PyList(<<>>)}

Arrays == {PyList(s) : s \in UNION {[1..n -> ElemValues] : n \in 0..MaxArrayLen}}

RECURSIVE Serialize(_)
Serialize(v) ==
  CASE v.t = "list" ->
         <<"[">> \o Join(<<",">>, [i \in 1..Len(v.items) |-> Serialize(v.items[i])])
           \o <<"]">>
    [] v.t = "dict" -> <<"{", "}">>
    [] v.t = "null" -> <<"null">>
    [] v.t = "str" -> <<"\"a\"">>
    [] v.t = "bool" -> <<"true">>
    [] v.t = "float" -> <<"0.5">>
    [] v.t = "int" -> <<CHOOSE tok \in ScalarTokens : TokenValue(tok) = v>>

Damaged(text) ==
  {SubSeq(text, 1, Len(text) - 1), text \o <<"]">>, <<"not">> \o text}

Texts ==
  {Serialize(v) : v \in ElemValues \cup {PyNull, PyDict} \cup Arrays}
    \cup UNION {Damaged(Serialize(PyList(s))) : s \in {<<>>} \cup {<<e>> : e \in ElemValues}}
    \cup {<<>>, <<"not", "valid", "json">>, <<"{">>, <<"[", "2", ",", "]">>,
          <<"[", "null", ",", "{", "}", "]">>, <<"[", "2", ",", "null", ",", "{", "}", "]">>}

(* ---------------------------- the instance ----------------------------- *)

NoCall == [tool |-> "none"]

NoReturn == [kind |-> "none"]

\* The state after PythonExampleSkill() under some host configuration.
Init ==
  /\ host_config \in HostConfigs
  /\ greeting_prefix = init_greeting_prefix(host_config)
  /\ max_items = init_max_items(host_config)
  /\ pc = "idle"
  /\ call = NoCall
  /\ ret = NoReturn
  /\ hist = [first_status |-> None, others |-> FALSE, failed |-> FALSE]

\* Whether r is a failing ExecutionResult or an exception.
Failed(r) == r.kind = "raised" \/ (r.kind = "result" /\ ~r.value.success)

\* One invocation, run to completion: the call c hands back r.  hist records
\* the first status() content, and whether another tool ran after it and
\* whether one of those failed.
Invoke(c, r) ==
  /\ pc = "idle"
  /\ pc' = "returned"
  /\ call' = c
  /\ ret' = r
  /\ hist' = IF c.tool = "status"
             THEN [hist EXCEPT !.first_status =
                     IF hist.first_status = None THEN Some(r.value) ELSE @]
             ELSE [hist EXCEPT !.others = (hist.first_status # None),
                               !.failed = @ \/ (hist.first_status # None /\ Failed(r))]

\* No tool assigns an attribute of self.
ConfigKept == UNCHANGED <<host_config, greeting_prefix, max_items>>

InvokeGreet ==
  /\ \E name_arg \in {None} \cup {Some(n) : n \in Names}, formal \in BOOLEAN :
       LET name == IF name_arg = None THEN DefaultName ELSE name_arg[1] IN
       Invoke([tool |-> "greet", name_arg |-> name_arg, name |-> name,
               formal |-> formal],
              ReturnedStr(greet(name, formal)))
  /\ ConfigKept

InvokeEcho ==
  /\ \E message \in Messages, uppercase \in BOOLEAN, reverse \in BOOLEAN :
       Invoke([tool |-> "echo", message |-> message, uppercase |-> uppercase,
               reverse |-> reverse],
              ReturnedStr(echo(message, uppercase, reverse)))
  /\ ConfigKept

InvokeCalculate ==
  /\ \E a \in CalcNumbers, b \in CalcNumbers, operation \in OperationNames :
       Invoke([tool |-> "calculate", a |-> a, b |-> b, operation |-> operation],
              calculate(a, b, operation))
  /\ ConfigKept

\* process_list treating max_items as a quota that each array uses up.
InvokeProcessList_consuming ==
  /\ \E items \in Texts :
       /\ Invoke([tool |-> "process_list", items |-> items], process_list(items))
       /\ max_items' = IF loads(items).ok /\ loads(items).value.t = "list"
                       THEN max_items - Len(loads(items).value.items)
                       ELSE max_items
  /\ UNCHANGED <<host_config, greeting_prefix>>

InvokeProcessList ==
  /\ \E items \in Texts :
       Invoke([tool |-> "process_list", items |-> items], process_list(items))
  /\ ConfigKept

InvokeStatus ==
  /\ Invoke([tool |-> "status"], ReturnedDict(status))
  /\ ConfigKept

\* The host takes the result; the instance is ready for the next invocation.
Return ==
  /\ pc = "returned"
  /\ pc' = "idle"
  /\ call' = NoCall
  /\ ret' = NoReturn
  /\ UNCHANGED <<host_config, greeting_prefix, max_items, hist>>

Next ==
  \/ InvokeGreet
  \/ InvokeEcho
  \/ InvokeCalculate
  \/ InvokeProcessList
  \/ InvokeStatus
  \/ Return

Spec == Init /\ [][Next]_vars

(* ------------------------------- claims -------------------------------- *)

Returned(tool) == pc = "returned" /\ call.tool = tool

\* The error text of a failing ExecutionResult handed back, else "".
ErrorText == 
  IF ret.kind = "result" /\ ret.value.error_message # None
  THEN ret.value.error_message[1] ELSE <<>>

FailsWith(text) ==
  /\ ret.kind = "result"
  /\ ~ret.value.success
  /\ Contains(ErrorText, text)

\* The exact value of a (+, -, *, /) b as a fraction.
Exact(operation, a, b) ==
  CASE operation = <<"a", "d", "d">> -> [num |-> a.num * b.den + b.num * a.den, den |-> a.den * b.den]
    [] operation = <<"s", "u", "b", "t", "r", "a", "c", "t">> -> [num |-> a.num * b.den - b.num * a.den, den |-> a.den * b.den]
    [] operation = <<"m", "u", "l", "t", "i", "p", "l", "y">> -> [num |-> a.num * b.num, den |-> a.den * b.den]
    [] operation = <<"d", "i", "v", "i", "d", "e">> -> [num |-> a.num * b.den, den |-> a.den * b.num]

\* C1: for all numbers a, b and every operation of add, subtract, multiply,
\* divide (b # 0 for divide), calculate returns a successful result whose
\* data.result is a+b, a-b, a*b or a/b and whose data.operation, data.a and
\* data.b are the inputs unchanged.
C1_CalculateArithmetic ==
  (/\ Returned("calculate")
   /\ call.operation \in KnownOperations
   /\ ~(call.operation = <<"d", "i", "v", "i", "d", "e">> /\ call.b.num = 0))
  => /\ ret.kind = "result"
     /\ ret.value.success
     /\ ret.value.data # None
     /\ NumEq(ret.value.data[1].result, Exact(call.operation, call.a, call.b))
     /\ ret.value.data[1].operation = call.operation
     /\ ret.value.data[1].a = call.a
     /\ ret.value.data[1].b = call.b

\* C2: calculate(a, 0, "divide") returns a failing result whose error
\* message contains "zero" whatever its case: no exception, no success.
C2_DivideByZeroFails ==
  (Returned("calculate") /\ call.operation = <<"d", "i", "v", "i", "d", "e">> /\ call.b.num = 0)
  => /\ ret.kind = "result"
     /\ ~ret.value.success
     /\ ret.value.error_message # None
     /\ Contains(Lower(ret.value.error_message[1]), <<"z", "e", "r", "o">>)

C2_Witness ==
  /\ Returned("calculate")
  /\ call.operation = <<"d", "i", "v", "i", "d", "e">>
  /\ call.b = PyFloat(0, 1)
  /\ call.a = PyInt(Huge)
  /\ FailsWith(<<"z", "e", "r", "o">>)

\* The first place sub occurs in s, or 0.
Find(s, sub) ==
  IF Contains(s, sub)
  THEN 1 + CHOOSE i \in 0..(Len(s) - Len(sub)) :
             /\ SubSeq(s, i + 1, i + Len(sub)) = sub
             /\ \A j \in 0..(i - 1) : SubSeq(s, j + 1, j + Len(sub)) # sub
  ELSE 0

RECURSIVE Split(_, _)
Split(s, sep) ==
  LET i == Find(s, sep) IN
  IF i = 0 THEN <<s>>
  ELSE <<SubSeq(s, 1, i - 1)>> \o Split(SubSeq(s, i + Len(sep), Len(s)), sep)

\* The names an "Unknown operation" message lists after "Valid: ".
ListedOperations(msg) ==
  LET i == Find(msg, <<"V", "a", "l", "i", "d", ":", " ">>) IN
  IF i = 0 THEN <<>> ELSE Split(SubSeq(msg, i + 7, Len(msg)), <<",", " ">>)

\* C3: for an operation name outside add, subtract, multiply, divide,
\* calculate returns a failing result that says "Unknown operation" and
\* lists exactly add, subtract, multiply, divide, whatever the operands.
C3_UnknownOperationFails ==
  (Returned("calculate") /\ call.operation \notin KnownOperations)
  => /\ FailsWith(<<"U", "n", "k", "n", "o", "w", "n", " ", "o", "p", "e", "r", "a", "t", "i", "o", "n">>)
     /\ Len(ListedOperations(ErrorText)) = 4
     /\ {ListedOperations(ErrorText)[i] : i \in 1..4} = KnownOperations

C3_Witness ==
  /\ Returned("calculate")
  /\ call.operation = <<"m", "o", "d", "u", "l", "o">>
  /\ call.b.num = 0
  /\ call.a = PyInt(Huge)
  /\ FailsWith(<<"U", "n", "k", "n", "o", "w", "n", " ", "o", "p", "e", "r", "a", "t", "i", "o", "n", ":", " ", "m", "o", "d", "u", "l", "o">>)

\* C4: echo upper-cases first (iff uppercase) and reverses second (iff
\* reverse); with neither flag the message comes back unchanged.
C4_EchoUpperThenReverse ==
  Returned("echo")
  => /\ ret.kind = "str"
     /\ ret.value =
          (IF call.uppercase /\ call.reverse THEN Reverse(Upper(call.message))
           ELSE IF call.uppercase THEN Upper(call.message)
           ELSE IF call.reverse THEN Reverse(call.message)
           ELSE call.message)

C4_Witness ==
  /\ Returned("echo")
  /\ call.uppercase
  /\ call.reverse
  /\ call.message = <<"a", Ligature>>
  /\ ret.value = <<"I", "F", "A">>

\* A JSON number: true and false are not.
IsJsonNumber(x) == x.t \in {"int", "float"}

NumericEntries(items) == SelectSeq(items, IsJsonNumber)

\* Whether the text parses to an array, and the array.
ParsesToArray(items) == loads(items).ok /\ loads(items).value.t = "list"

ArrayOf(items) == loads(items).value.items

\* C5: for a text that parses to an array of at most max_items entries with
\* at least one numeric entry, process_list returns a successful result
\* computed over exactly the numeric entries: their count, sum, least,
\* greatest, and average = sum / count.
C5_StatsOverNumericEntries ==
  (/\ Returned("process_list")
   /\ ParsesToArray(call.items)
   /\ Len(ArrayOf(call.items)) <= max_items
   /\ NumericEntries(ArrayOf(call.items)) # <<>>)
  => LET entries == NumericEntries(ArrayOf(call.items)) IN
     /\ ret.kind = "result"
     /\ ret.value.success
     /\ ret.value.data # None
     /\ LET stats == ret.value.data[1] IN
        /\ stats.count = Len(entries)
        /\ NumEq(stats.sum, Sum(entries))
        /\ \E i \in 1..Len(entries) : NumEq(stats.min, entries[i])
        /\ \A i \in 1..Len(entries) : ~NumLess(entries[i], stats.min)
        /\ \E i \in 1..Len(entries) : NumEq(stats.max, entries[i])
        /\ \A i \in 1..Len(entries) : ~NumLess(stats.max, entries[i])
        /\ stats.average.num * stats.count * stats.sum.den
             = stats.sum.num * stats.average.den

\* C6: process_list hands back an ExecutionResult for every text, never an
\* exception; it fails by the first violated check of: parseable ("Invalid
\* JSON"), an array ("array"), at most max_items long (the length and the
\* limit are cited), at least one numeric entry ("No valid numbers"); and it
\* succeeds only when all four pass.
C6_ValidationOrder ==
  Returned("process_list")
  => /\ ret.kind = "result"
     /\ IF ~loads(call.items).ok THEN FailsWith(<<"I", "n", "v", "a", "l", "i", "d", " ", "J", "S", "O", "N">>)
        ELSE IF ~ParsesToArray(call.items) THEN
          ~ret.value.success /\ Contains(Lower(ErrorText), <<"a", "r", "r", "a", "y">>)
        ELSE IF Len(ArrayOf(call.items)) > max_items THEN
          /\ FailsWith(FormatInt(Len(ArrayOf(call.items))))
          /\ FailsWith(FormatInt(max_items))
        ELSE IF NumericEntries(ArrayOf(call.items)) = <<>> THEN
          FailsWith(<<"N", "o", " ", "v", "a", "l", "i", "d", " ", "n", "u", "m", "b", "e", "r", "s">>)
        ELSE ret.value.success

\* C7: greeting_prefix and max_items keep the values the constructor
\* resolved, through every invocation, failing or not; so every status()
\* hands back the content the first one did.
C7_ConfigImmutable ==
  /\ greeting_prefix = init_greeting_prefix(host_config)
  /\ max_items = init_max_items(host_config)
  /\ Returned("status") => ret = ReturnedDict(hist.first_status[1])

C7_Witness ==
  /\ Returned("status")
  /\ hist.others
  /\ hist.failed
  /\ ret = ReturnedDict(hist.first_status[1])
  /\ host_config.max_items # None

\* C8: every ExecutionResult handed back by calculate or process_list has
\* an empty error_message when success is true and a non-empty one when
\* success is false.
C8_EnvelopeInvariant ==
  ((Returned("calculate") \/ Returned("process_list")) /\ ret.kind = "result")
  => LET r == ret.value IN
     /\ r.success => (r.error_message = None \/ r.error_message = Some(<<>>))
     /\ ~r.success => (r.error_message # None /\ r.error_message[1] # <<>>)

C8_Witness ==
  /\ Returned("process_list")
  /\ hist.failed
  /\ ret.kind = "result"
  /\ ret.value.success
  /\ ret.value.error_message = None

\* C9: greet(name, formal=true) is "Good day, <name>. How may I assist
\* you?" whatever the prefix; greet(name, formal=false) is "<prefix>,
\* <name>!" with the prefix the constructor resolved; with no arguments and
\* no host configuration the greeting contains "Hello" and "World".
C9_GreetFormats ==
  Returned("greet")
  => /\ ret.kind = "str"
     /\ call.formal =>
          ret.value = <<"G", "o", "o", "d", " ", "d", "a", "y", ",", " ">> \o call.name \o <<".", " ", "H", "o", "w", " ", "m", "a", "y", " ", "I", " ", "a", "s", "s", "i", "s", "t", " ", "y", "o", "u", "?">>
     /\ ~call.formal =>
          ret.value = init_greeting_prefix(host_config) \o <<",", " ">> \o call.name \o <<"!">>
     /\ (call.name_arg = None /\ ~call.formal /\ host_config.greeting_prefix = None)
          => Contains(ret.value, <<"H", "e", "l", "l", "o">>) /\ Contains(ret.value, <<"W", "o", "r", "l", "d">>)

C9_Witness ==
  /\ Returned("greet")
  /\ ~call.formal
  /\ host_config.greeting_prefix # None
  /\ call.name = <<"A", "l", "i", "c", "e">>
  /\ ret.value = <<"H", "i", ",", " ", "A", "l", "i", "c", "e", "!">>

RejectedAsTooLarge == FailsWith(<<"T", "o", "o", " ", "m", "a", "n", "y", " ", "i", "t", "e", "m", "s">>)

\* C10: the configuration status reports is the one the tools use: an array
\* is rejected as too large iff its length, counted over all its entries,
\* exceeds status().config.max_items, and a non-formal greeting starts with
\* status().config.greeting_prefix.
C10_StatusReportsUsedConfig ==
  /\ (Returned("process_list") /\ ParsesToArray(call.items))
       => (RejectedAsTooLarge <=> Len(ArrayOf(call.items)) > status.config.max_items)
  /\ (Returned("greet") /\ ~call.formal)
       => ret.value = status.config.greeting_prefix \o <<",", " ">> \o call.name \o <<"!">>

C10_Witness ==
  /\ Returned("process_list")
  /\ ParsesToArray(call.items)
  /\ Len(ArrayOf(call.items)) = status.config.max_items + 1
  /\ Len(NumericEntries(ArrayOf(call.items))) <= status.config.max_items
  /\ NumericEntries(ArrayOf(call.items)) # <<>>
  /\ RejectedAsTooLarge

====
